---------------------------- MODULE Spec2Model ----------------------------
(***************************************************************************)
(* Model of the streda Home Assistant integration                          *)
(* (custom_components/streda): the device-state tree kept by               *)
(* DataCoordinator and its push merge (coordinator.py), and the token      *)
(* chain of StredaApiClient (api.py) as driven by the handlers of          *)
(* __init__.py, coordinator.py and switch.py.                              *)
(***************************************************************************)
EXTENDS Integers, Sequences, FiniteSets, TLC

VARIABLES
    \* ---- DataCoordinator (coordinator.py) ----
    data,           \* self.data["device_states"]: the device-state tree
    op,             \* the callback the event loop has just run ("idle": none)
    msg,            \* the update batch that callback was given
    pre,            \* the tree as it was when that callback started
    merged,         \* positions of the batch at which state["data"].update ran
    notified,       \* calls of async_set_updated_data in that callback
    logged,         \* errors that callback caught and logged
    hub_connection, \* self.hub_connection: the push channel held, if any
    \* ---- StredaApiClient (api.py) ----
    now,            \* datetime.now(timezone.utc), in clock ticks
    refresh_token,  \* self._refresh_token
    id_token,       \* self._id_token
    api_token,      \* self._api_token
    expiry_date,    \* self._expiry_date
    stored,         \* entry.data[CONF_REFRESH_TOKEN], written by save_token_to_disk
    calls,          \* the requests and token saves that callback made, in order
    ret,            \* what reauthenticate_if_needed returned in that callback
    va,             \* what verify_access returned in that callback
    \* ---- async_setup_entry (__init__.py) and RelayBin (switch.py) ----
    phase,          \* async_setup_entry: "new", "running", "failed" or "unloaded"
    timer,          \* whether async_track_time_interval(_check_tokens) is registered
    registry,       \* whether hass.data[DOMAIN][entry.entry_id] is set
    system,         \* what discover_system returned in that callback
    fanout,         \* the room list it fetched and the order its dock fetches completed in
    entity,         \* the RelayBin entity: the fields bound by __init__
    \* ---- coroutines and callbacks in flight on the event loop ----
    task,           \* per coroutine: the await it is suspended at, and its locals
    channels,       \* the HubConnection objects built so far: state and token
    ready,          \* callbacks call_soon_threadsafe has queued on hass.loop
    arrived,        \* history: the messages the channel's thread has delivered
    applied         \* history: the messages _handle_device_update has handled

storeVars == <<data, op, msg, pre, merged, notified, logged>>
credVars  == <<now, refresh_token, id_token, api_token, expiry_date, stored,
               calls, ret, va, phase, timer>>
lifeVars  == <<hub_connection, registry, system, fanout, entity>>
taskVars  == <<task, channels, ready, arrived, applied>>
vars      == <<data, op, msg, pre, merged, notified, logged, hub_connection, now,
               refresh_token, id_token, api_token, expiry_date, stored, calls, ret,
               va, phase, timer, registry, system, fanout, entity,
               task, channels, ready, arrived, applied>>

\* Python's None, for a value that is otherwise a string.
None == "None"

\* self._expiry_date = None: no expiry is held.
NoExpiry == -1

\* Python truthiness of an optional string: None and "" are falsy.
Truthy(s) == s # None /\ s # ""

Max(S) == CHOOSE x \in S : \A y \in S : y <= x
Min(S) == CHOOSE x \in S : \A y \in S : x <= y

(***************************************************************************)
(* The device-state tree: a list of SnapIns, each with a list of devices,  *)
(* each with a list of states holding a data mapping (a Python dict).      *)
(***************************************************************************)
Dict(f) == [k \in DOMAIN f |-> f[k]]
EmptyDict == [k \in {} |-> None]

St(t, d) == [type |-> t, data |-> Dict(d)]
Dev(n, k, ss) == [deviceNumber |-> n, deviceType |-> k, states |-> ss]
Snap(z, ds) == [zigbeeId |-> z, devices |-> ds]

\* One update record of a deviceStateNotification message.  hasState is
\* whether update.get("deviceState") is truthy.
Upd(z, n, has, t, d) ==
    [zigbeeId |-> z, deviceNumber |-> n, hasState |-> has, type |-> t, data |-> Dict(d)]

\* dict.update: keys of u overwrite, the other keys of d stay.
DictReplace(d, u) == u
DictUpdate(d, u) ==
    [k \in (DOMAIN d) \cup (DOMAIN u) |-> IF k \in DOMAIN u THEN u[k] ELSE d[k]]

\* snapin_index.get(zigbee_id): the last SnapIn of the list with that
\* (truthy) zigbeeId, 0 when there is none.
SnapinIndex(tree, z) ==
    LET S == {i \in 1..Len(tree) : Truthy(tree[i].zigbeeId) /\ tree[i].zigbeeId = z}
    IN IF S = {} THEN 0 ELSE Max(S)

\* next(d for d in devices if d.get("deviceNumber") == device_number, None)
DeviceIndex(devices, n) ==
    LET S == {i \in 1..Len(devices) : devices[i].deviceNumber = n}
    IN IF S = {} THEN 0 ELSE Min(S)

\* the first state of the device, whatever its type
StateIndexFirst(states, t) == IF states = <<>> THEN 0 ELSE 1
\* the first state of the device whose type is state_type (the loop breaks there)
StateIndex(states, t) ==
    LET S == {i \in 1..Len(states) : states[i].type = t}
    IN IF S = {} THEN 0 ELSE Min(S)

\* A state record appended to the device when none has the type.
MissCreates(tree, si, di, u) ==
    [tree EXCEPT ![si].devices[di].states = Append(@, [type |-> u.type, data |-> u.data])]
\* No state of the device has the update's type: the inner loop ends
\* without a match and nothing is written.
MissKeeps(tree, si, di, u) == tree

\* The body of "for state in device.get('states', [])" for one update that
\* found its SnapIn si and device di.
MergeInto(tree, si, di, u) ==
    LET sti == StateIndex(tree[si].devices[di].states, u.type)
    IN IF sti = 0
       THEN MissKeeps(tree, si, di, u)
       ELSE [tree EXCEPT ![si].devices[di].states[sti].data = DictUpdate(@, u.data)]

\* A deviceState that is truthy but not a mapping, as the type of an update
\* record: device_state.get("type") raises AttributeError.
NotADict == "<not a dict>"

\* apply_signalr_updates from position i of the batch on.  The result is
\* the tree, the positions at which a data mapping was updated, and whether
\* an exception was raised.  The return statement sits inside the
\* "for update in updates" loop: the function returns after the first
\* update that found its device.
RECURSIVE ApplyFrom(_, _, _)
ApplyFrom(tree, updates, i) ==
    IF i > Len(updates) THEN [tree |-> tree, merged |-> <<>>, raised |-> FALSE]
    ELSE LET u  == updates[i]
             si == SnapinIndex(tree, u.zigbeeId)
             di == IF si = 0 THEN 0 ELSE DeviceIndex(tree[si].devices, u.deviceNumber)
         IN IF ~(Truthy(u.zigbeeId) /\ u.hasState) THEN ApplyFrom(tree, updates, i + 1)
            ELSE IF si = 0 THEN ApplyFrom(tree, updates, i + 1)
            ELSE IF di = 0 THEN ApplyFrom(tree, updates, i + 1)
            ELSE IF u.type = NotADict THEN [tree |-> tree, merged |-> <<>>, raised |-> TRUE]
            ELSE [tree   |-> MergeInto(tree, si, di, u),
                  merged |-> IF StateIndex(tree[si].devices[di].states, u.type) = 0
                             THEN <<>> ELSE <<i>>,
                  raised |-> FALSE]

apply_signalr_updates(full_state, updates) == ApplyFrom(full_state, updates, 1)

(***************************************************************************)
(* Inputs of the state store: the trees the device-state endpoint answers   *)
(* with and the update records a push message can carry.                   *)
(***************************************************************************)
MaxBatch == 2

PowerData(s) == [state |-> s, ts |-> "t0"]

HouseTree(s1, s2) ==
    << Snap("Z1", << Dev(1, "RelayBin",
                         << St("PowerState", PowerData(s1)),
                            St("FirmwareState", [firmwareVersion |-> "1"]) >>),
                     Dev(2, "Sensor", << St("PowerState", [state |-> "OFF"]) >>) >>),
       Snap("Z2", << Dev(1, "RelayBin", << St("PowerState", PowerData(s2)) >>) >>) >>

SmallTree == << Snap("Z1", << Dev(1, "RelayBin", << St("PowerState", PowerData("ON")) >>) >>) >>

ServerTrees == {HouseTree("OFF", "ON"), HouseTree("ON", "OFF"), SmallTree, <<>>}

Updates ==
    { Upd("Z1", 1, TRUE, "PowerState", [state |-> "ON"]),
      Upd("Z1", 1, TRUE, "PowerState", [state |-> "OFF", ts |-> "t1"]),
      Upd("Z1", 2, TRUE, "PowerState", [state |-> "ON"]),
      Upd("Z2", 1, TRUE, "PowerState", [state |-> "OFF", level |-> "1"]),
      Upd("Z1", 1, TRUE, "FirmwareState", [firmwareVersion |-> "2"]),
      Upd("Z1", 1, TRUE, "PowerState", EmptyDict),
      Upd("Z9", 1, TRUE, "PowerState", [state |-> "ON"]),          \* unknown zigbeeId
      Upd("Z2", 2, TRUE, "PowerState", [state |-> "ON"]),          \* unknown deviceNumber
      Upd("Z2", 1, TRUE, "FirmwareState", [firmwareVersion |-> "2"]), \* unknown state type
      Upd("", 1, TRUE, "PowerState", [state |-> "ON"]),            \* no zigbeeId
      Upd("Z1", 1, FALSE, None, EmptyDict),                        \* no deviceState
      Upd("Z2", 1, TRUE, NotADict, EmptyDict) }                    \* deviceState not a mapping

Batches == UNION {[1..n -> Updates] : n \in 0..MaxBatch}

(***************************************************************************)
(* StredaApiClient (api.py).  An operation takes the client c (its fields  *)
(* and the log of what it sent), the answers env of the servers and the    *)
(* current time t, and yields the client afterwards and what it returned.  *)
(* The clock counts ticks of half an hour, the period of _check_tokens.    *)
(***************************************************************************)
\* timedelta(hours=1), in clock ticks
HOUR == 2

\* bound on the clock
MaxTime == 4

\* expiresInSeconds of a login answer, in clock ticks (0 also when absent)
ExpiresIn == {0, 3}

\* One request sent, or one call of the persistence callback, as logged:
\* kind, the token sent (or saved), the expiry held at that moment, how it
\* was answered ("err": transport error or error status; "noid", "notoken":
\* a 2xx body without the token; "ok"), the HTTP status where the code reads
\* it, and the token got (the refresh token, for the token endpoint).
Call(kind, tok, exp, rsp, status, got) ==
    [kind |-> kind, tok |-> tok, exp |-> exp, rsp |-> rsp, status |-> status, got |-> got]

Log(c, kind, tok, rsp, status, got) ==
    [c EXCEPT !.calls = Append(@, Call(kind, tok, c.exp, rsp, status, got))]

\* F applied to the value of v: a statement's result is computed once and
\* then used by the statements after it.
With(v, F(_)) == CHOOSE r \in {F(x) : x \in {v}} : TRUE

\* The servers rotate: the refresh and API tokens they issue differ from the
\* ones held; one identity token stands for all.
NewRefresh(cur) == IF cur = "R1" THEN "R2" ELSE "R1"
NewId(cur) == "I1"
NewApi(cur) == IF cur = "A1" THEN "A2" ELSE "A1"

\* Answers of the token endpoint: an error (transport or non-2xx), or a
\* 2xx body with or without id_token and refresh_token.
B2CResponses ==
    { [err |-> TRUE,  id |-> FALSE, rt |-> FALSE],
      [err |-> FALSE, id |-> TRUE,  rt |-> TRUE],
      [err |-> FALSE, id |-> FALSE, rt |-> TRUE],
      [err |-> FALSE, id |-> TRUE,  rt |-> FALSE] }

\* Answers of UserAuth/login: an error, or a 2xx body with or without token.
LoginResponses ==
    { [err |-> TRUE, token |-> FALSE, expires |-> 0],
      [err |-> FALSE, token |-> FALSE, expires |-> 0] }
    \cup { [err |-> FALSE, token |-> TRUE, expires |-> e] : e \in ExpiresIn }

\* Answers of GET /Location/{id}: a transport error or a status.
LocationResponses ==
    { [err |-> TRUE, status |-> 0] }
    \cup { [err |-> FALSE, status |-> st] : st \in {200, 403, 404, 500} }

\* Answers of the endpoints whose status the code only passes to
\* raise_for_status.
PlainResponses == {"ok", "err"}

\* response.raise_for_status()
raise_for_status(status) == status >= 400

\* The servers answer a request that carries no token with an error.
Answer(tok, rsp) == IF Truthy(tok) THEN rsp ELSE "err"

verify_token_validity_le(c, t) ==
    IF c.exp = NoExpiry THEN FALSE ELSE t <= c.exp - HOUR
verify_token_validity(c, t) ==
    IF c.exp = NoExpiry THEN FALSE ELSE t < c.exp - HOUR

\* authenticate_b2c with the callback left out
authenticate_b2c_nosave(c, env) ==
    LET r == env.b2c IN
    IF ~Truthy(c.rt) \/ r.err
    THEN [c |-> Log(c, "b2c", c.rt, "err", 0, None), ret |-> FALSE]
    ELSE LET newid == IF r.id THEN NewId(c.id) ELSE None
             newrt == IF r.rt THEN NewRefresh(c.rt) ELSE None
             c1 == [Log(c, "b2c", c.rt, IF r.id THEN "ok" ELSE "noid", 0, newrt)
                   EXCEPT !.id = newid, !.rt = newrt]
         IN [c |-> c1, ret |-> Truthy(newid)]
authenticate_b2c(c, env) ==
    LET r == env.b2c IN
    IF ~Truthy(c.rt) \/ r.err
    THEN \* raise_for_status or the transport raised: caught, nothing assigned
         [c |-> Log(c, "b2c", c.rt, "err", 0, None), ret |-> FALSE]
    ELSE LET newid == IF r.id THEN NewId(c.id) ELSE None
             newrt == IF r.rt THEN NewRefresh(c.rt) ELSE None
         IN With([Log(c, "b2c", c.rt, IF r.id THEN "ok" ELSE "noid", 0, newrt)
                     EXCEPT !.id = newid, !.rt = newrt],
                 \* await self._token_update_callback(self._refresh_token)
                 LAMBDA c1 : [c |-> [Log(c1, "save", newrt, "ok", 0, None)
                                        EXCEPT !.stored = newrt],
                              ret |-> Truthy(newid)])

authenticate_api(c, env, t) ==
    LET r == env.login IN
    IF ~Truthy(c.id) \/ r.err
    THEN [c |-> Log(c, "login", c.id, "err", 0, None), ret |-> FALSE]
    ELSE LET newapi == IF r.token THEN NewApi(c.api) ELSE None
         IN With([Log(c, "login", c.id, IF r.token THEN "ok" ELSE "notoken", 0, newapi)
                     EXCEPT !.api = newapi],
                 LAMBDA c1 : IF ~Truthy(newapi)
                             THEN [c |-> c1, ret |-> FALSE]
                             ELSE [c |-> [c1 EXCEPT !.exp = t + r.expires], ret |-> TRUE])

\* Both exchanges of the chain, whatever the first returned.
Reauthenticate(c, env, t) ==
    With(authenticate_b2c(c, env), LAMBDA b : authenticate_api(b.c, env, t).c)

reauthenticate_always(c, env, t) ==
    [c |-> Reauthenticate(c, env, t), ret |-> TRUE]
reauthenticate_if_needed(c, env, t) ==
    IF ~verify_token_validity(c, t)
    THEN [c |-> Reauthenticate(c, env, t), ret |-> TRUE]
    ELSE [c |-> c, ret |-> FALSE]

\* The location check of verify_access, once both exchanges succeeded.
LocationCheck(c, env) ==
    LET r == env.loc
    IN [c |-> Log(c, "location", c.api, IF r.err THEN "err" ELSE "ok", r.status, None),
        ret |-> ~r.err /\ r.status # 404 /\ r.status # 403 /\ ~raise_for_status(r.status)]

\* What verify_access returns, recorded on the client.
Returned(c, result) ==
    [c |-> [c EXCEPT !.va = IF result THEN "True" ELSE "False"], ret |-> result]

VerifyAccessNoShortCircuit(c, env, t) ==
    With(authenticate_b2c(c, env), LAMBDA b :
    With(authenticate_api(b.c, env, t), LAMBDA a :
    With(LocationCheck(a.c, env), LAMBDA l :
        Returned(l.c, b.ret /\ a.ret /\ l.ret))))
verify_access(c, env, t) ==
    With(authenticate_b2c(c, env), LAMBDA b :
        IF ~b.ret THEN Returned(b.c, FALSE)
        ELSE With(authenticate_api(b.c, env, t), LAMBDA a :
            IF ~a.ret THEN Returned(a.c, FALSE)
            ELSE With(LocationCheck(a.c, env), LAMBDA l : Returned(l.c, l.ret))))

\* A request that sends self._api_token as bearer and raises on an error.
BearerRequest(c, kind, rsp) ==
    LET answer == Answer(c.api, rsp)
    IN [c |-> Log(c, kind, c.api, answer, 0, None), raised |-> answer = "err"]

\* The client once a token was asked for: verify_access is run when none
\* is held, and what it returns is not looked at.
EnsureToken(c, env, t) == IF ~Truthy(c.api) THEN verify_access(c, env, t).c ELSE c

get_device_states(c, env, t) ==
    With(EnsureToken(c, env, t), LAMBDA c1 : BearerRequest(c1, "deviceStates", env.ds))

\* The accessToken of a negotiate answer.
Realtime == "S1"

\* Answers of the negotiate endpoint: with an accessToken, without one, or
\* an error.
NegotiateResponses == {"ok", "notoken", "err"}

\* get_signalr_access_token: returns the token, False when the answer has
\* no accessToken, "" when the request failed; never raises.
get_signalr_access_token(c, env) ==
    LET answer == Answer(c.api, env.neg)
        token == IF answer = "err" THEN ""
                 ELSE IF answer = "notoken" THEN "False" ELSE Realtime
    IN [c |-> Log(c, "negotiate", c.api, answer, 0, token), ret |-> token]

\* toggle_light: posts the TOGGLE action for the target device; returns
\* True or False; never raises.
toggle_light(c, env, dock_number, dock_device_number) ==
    LET answer == Answer(c.api, env.toggle)
    IN [c EXCEPT !.calls = Append(@, Call("toggle", c.api, c.exp, answer, 0, None)
                                     @@ [dockNumber |-> dock_number,
                                         deviceNumber |-> dock_device_number])]

(***************************************************************************)
(* discover_system: the room list, then the docks of every room, fetched   *)
(* concurrently by asyncio.gather.                                         *)
(***************************************************************************)
Room(id, name) == [id |-> id, name |-> name]
Hall == Room("r1", "hall")
Kitchen == Room("r2", "kitchen")
RoomIds == {"r1", "r2"}

\* The room lists getRooms answers with.
RoomLists == {<<Hall>>, <<Hall, Kitchen>>, <<Kitchen, Hall>>}

Dock(code, z, s, n) == [dockCode |-> code, zigbeeId |-> z, snapInId |-> s, number |-> n]

\* The docks getDocks answers with for a room.
DocksOf(id) ==
    IF id = "r1" THEN << Dock("BN1-C", "Z1", "S1", 7) >>
    ELSE << Dock("BN1-C", "Z2", "S2", 8), Dock("SK1-W", "Z3", "S3", 9) >>

\* The orders in which n concurrent fetches can complete.
Orders(n) == {p \in [1..n -> 1..n] : \A i, j \in 1..n : p[i] = p[j] => i = j}

\* What fetch_docks_for_room returns for a room.
RoomEntry(room) == [room_id |-> room.id, room_name |-> room.name, docks |-> DocksOf(room.id)]

\* The result slot of an awaitable that has not completed.
Pending == [room_id |-> None, room_name |-> None, docks |-> <<>>]

\* The results of the fetches, gathered as they complete.
RECURSIVE GatherAsCompleted(_, _, _, _)
GatherAsCompleted(results, rooms, order, k) ==
    IF k > Len(order) THEN results
    ELSE GatherAsCompleted([results EXCEPT ![k] = RoomEntry(rooms[order[k]])],
                           rooms, order, k + 1)
\* asyncio.gather: the k-th fetch to complete is fetch order[k]; its result
\* goes to the slot of its awaitable.
RECURSIVE Gather(_, _, _, _)
Gather(results, rooms, order, k) ==
    IF k > Len(order) THEN results
    ELSE Gather([results EXCEPT ![order[k]] = RoomEntry(rooms[order[k]])],
                rooms, order, k + 1)

\* The getDocks requests of asyncio.gather, one per room, all sent; one
\* that raises makes gather raise.
RECURSIVE FetchDocks(_, _, _, _)
FetchDocks(c, env, rooms, n) ==
    IF n > Len(rooms) THEN [c |-> c, raised |-> FALSE]
    ELSE With(BearerRequest(c, "docks", env.docks[rooms[n].id]), LAMBDA f :
         With(FetchDocks(f.c, env, rooms, n + 1), LAMBDA rest :
             [c |-> rest.c, raised |-> f.raised \/ rest.raised]))

\* discover_system returns the gathered list, or raises and returns nothing.
discover_system(c, env, t) ==
    With(EnsureToken(c, env, t), LAMBDA c1 :
    With(BearerRequest(c1, "rooms", env.rooms.rsp), LAMBDA rooms :
        IF rooms.raised THEN [c |-> rooms.c, raised |-> TRUE, result |-> <<>>]
        ELSE With(FetchDocks(rooms.c, env, env.rooms.list, 1), LAMBDA docks :
            IF docks.raised THEN [c |-> docks.c, raised |-> TRUE, result |-> <<>>]
            ELSE [c |-> docks.c, raised |-> FALSE,
                  result |-> Gather([i \in 1..Len(env.rooms.list) |-> Pending],
                                    env.rooms.list, env.rooms.order, 1)])))

(***************************************************************************)
(* The push channel of DataCoordinator (coordinator.py).  c.hub is         *)
(* self.hub_connection: no channel ("none"), a channel built but not       *)
(* started ("built"), started ("open") or stopped ("closed"), and the real- *)
(* time token its access_token_factory returns.                            *)
(***************************************************************************)
NoHub == [state |-> "none", token |-> None]

\* hub_connection.start() or .stop() run in the executor: logged with the
\* channel's token; "err" when it raised.
HubCall(c, kind, rsp) == Log(c, kind, c.hub.token, rsp, 0, None)

\* async_start_signalr: the full fetch, the negotiation of the real-time
\* token, the channel built with whatever the negotiation returned and
\* assigned to self.hub_connection, then started.  Any exception is
\* logged and raised again.
async_start_signalr(c, env, t) ==
    With(get_device_states(c, env, t), LAMBDA g :
        IF g.raised THEN [c |-> g.c, raised |-> TRUE]
        ELSE With(get_signalr_access_token(g.c, env), LAMBDA n :
             With([n.c EXCEPT !.hub = [state |-> "built", token |-> n.ret]], LAMBDA built :
             With(HubCall(built, "hub_start", env.hub.start), LAMBDA started :
                 IF env.hub.start = "err"
                 THEN [c |-> started, raised |-> TRUE]
                 ELSE [c |-> [started EXCEPT !.hub.state = "open"], raised |-> FALSE]))))

\* _reconnect_signalr: stop the channel held, if any, then
\* async_start_signalr; an exception of either is logged and absorbed.
reconnect_signalr(c, env, t) ==
    IF c.hub.state = "none" THEN async_start_signalr(c, env, t).c
    ELSE With(HubCall(c, "hub_stop", env.hub.stop), LAMBDA stopped :
             IF env.hub.stop = "err" THEN stopped
             ELSE async_start_signalr([stopped EXCEPT !.hub.state = "closed"], env, t).c)

\* async_stop_signalr without its try, except and finally
StopWithoutTry(c, env) ==
    IF c.hub.state = "none" THEN [c |-> c, raised |-> FALSE]
    ELSE IF env.hub.stop = "err"
         THEN [c |-> HubCall(c, "hub_stop", "err"), raised |-> TRUE]
         ELSE [c |-> HubCall(c, "hub_stop", "ok"), raised |-> FALSE]
\* async_stop_signalr: stop the channel held, if any; an exception of
\* stop() is caught and logged; in every case the reference is dropped.
async_stop_signalr(c, env) ==
    IF c.hub.state = "none" THEN [c |-> c, raised |-> FALSE]
    ELSE [c |-> [HubCall(c, "hub_stop", env.hub.stop) EXCEPT !.hub = NoHub],
          raised |-> FALSE]

(***************************************************************************)
(* RelayBin (switch.py): one switch entity per dock of the supported type.  *)
(***************************************************************************)
\* self._dock_device_number = None
NoDevice == 0

NoEntity == [zigbee_id |-> None, dock_number |-> 0, dock_device_number |-> NoDevice]

\* The first SnapIn of the tree with the zigbeeId, 0 when there is none
\* (the loops of __init__ and snap_in_data stop there).
FirstSnapIn(tree, z) ==
    LET S == {i \in 1..Len(tree) : tree[i].zigbeeId = z}
    IN IF S = {} THEN 0 ELSE Min(S)

\* RelayBin.__init__: the dock's zigbeeId and number, and the deviceNumber
\* of the last RelayBin device of the SnapIn in the tree held at that time.
RelayBin(tree, dock) ==
    LET si == FirstSnapIn(tree, dock.zigbeeId)
        R  == IF si = 0 THEN {}
              ELSE {i \in 1..Len(tree[si].devices) : tree[si].devices[i].deviceType = "RelayBin"}
    IN [zigbee_id |-> dock.zigbeeId,
        dock_number |-> dock.number,
        dock_device_number |-> IF R = {} THEN NoDevice ELSE tree[si].devices[Max(R)].deviceNumber]

\* The supported docks of a topology, in the order switch.async_setup_entry
\* meets them.
RECURSIVE RelayDocks(_)
RelayDocks(topology) ==
    IF topology = <<>> THEN <<>>
    ELSE SelectSeq(Head(topology).docks, LAMBDA d : d.dockCode = "BN1-C")
         \o RelayDocks(Tail(topology))

\* The State records is_on iterates over: those of every RelayBin device
\* of the SnapIn, in order.
RECURSIVE RelayStates(_)
RelayStates(devices) ==
    IF devices = <<>> THEN <<>>
    ELSE (IF Head(devices).deviceType = "RelayBin" THEN Head(devices).states ELSE <<>>)
         \o RelayStates(Tail(devices))

\* The local variable `state` of is_on after the loops: it is the loop
\* variable, bound to each State record in turn and, for a PowerState
\* record, rebound to data.get("state").
RECURSIVE StateAfter(_, _)
StateAfter(state, states) ==
    IF states = <<>> THEN state
    ELSE LET s == Head(states)
         IN StateAfter(IF s.type = "PowerState"
                       THEN (IF "state" \in DOMAIN s.data THEN s.data.state ELSE None)
                       ELSE "<State record>",
                       Tail(states))

\* is_on: "True", "False", or "raise" when `state` was never bound
\* (UnboundLocalError).
is_on(tree, e) ==
    LET si == FirstSnapIn(tree, e.zigbee_id)
        state == StateAfter("<unbound>", IF si = 0 THEN <<>> ELSE RelayStates(tree[si].devices))
    IN IF state = "<unbound>" THEN "raise"
       ELSE IF state = "ON" THEN "True" ELSE "False"

\* async_turn_on with the check of is_on left out
TurnOnAlways(c, env, tree, e) ==
    toggle_light(c, env, e.dock_number, e.dock_device_number)
\* async_turn_on: toggle unless is_on; an exception of is_on propagates
\* before anything is sent.
async_turn_on(c, env, tree, e) ==
    IF is_on(tree, e) = "False"
    THEN toggle_light(c, env, e.dock_number, e.dock_device_number)
    ELSE c

\* async_turn_off: toggle if is_on.
async_turn_off(c, env, tree, e) ==
    IF is_on(tree, e) = "True"
    THEN toggle_light(c, env, e.dock_number, e.dock_device_number)
    ELSE c

(***************************************************************************)
(* StredaApiClient.__init__ and the activation before setup has run.       *)
(***************************************************************************)
NoSystem == [returned |-> FALSE, rooms |-> <<>>]
NoFanout == [list |-> <<>>, order |-> <<>>]

\* A coroutine that is not running: no await, no locals.
Idle == [pc |-> "idle", sent |-> None, chain |-> None, chan |-> 0, runs |-> 0]

\* The coroutines the model follows: _check_tokens, the coordinator's
\* refresh and async_unload_entry.
Tasks == {"check", "poll", "unload"}

\* Nothing in flight: every callback runs to completion before the next.
NoTasks ==
    /\ task = [t \in Tasks |-> Idle]
    /\ channels = <<>>
    /\ ready = <<>>
    /\ arrived = <<>>
    /\ applied = <<>>

InitCred ==
    /\ now = 0
    /\ refresh_token = "R0"
    /\ id_token = None
    /\ api_token = None
    /\ expiry_date = NoExpiry
    /\ stored = "R0"
    /\ calls = <<>>
    /\ ret = None
    /\ va = None
    /\ phase = "new"
    /\ timer = FALSE

\* The activation once async_setup_entry has returned True at time 0:
\* the tokens of one chain held, the timer registered, the entry in the
\* registry and the push channel started.
InitRunning ==
    /\ now = 0
    /\ refresh_token = NewRefresh("R0")
    /\ id_token = NewId(None)
    /\ api_token = NewApi(None)
    /\ expiry_date = Max(ExpiresIn)
    /\ stored = NewRefresh("R0")
    /\ calls = <<>>
    /\ ret = None
    /\ va = None
    /\ phase = "running"
    /\ timer = TRUE
    /\ registry = TRUE
    /\ hub_connection = [state |-> "open", token |-> Realtime]
    /\ system = NoSystem
    /\ fanout = NoFanout

(***************************************************************************)
(* The state store: DataCoordinator handlers that write self.data, and the *)
(* switch entity that reads it, in a running activation.  The entity is    *)
(* the one of the hall's dock, built at setup from the tree fetched then;  *)
(* the tree held since is any the server answers with.                     *)
(***************************************************************************)
InitStore ==
    /\ InitRunning
    /\ data \in ServerTrees
    /\ op = "idle"
    /\ msg = <<>>
    /\ pre = data
    /\ merged = <<>>
    /\ notified = 0
    /\ logged = FALSE
    /\ entity = RelayBin(HouseTree("OFF", "ON"), DocksOf(Hall.id)[1])
    /\ NoTasks

\* _handle_device_update that notifies only when the tree changed
NotifyIfChanged(before, r) == IF r.raised \/ r.tree = before THEN 0 ELSE 1
\* The calls of async_set_updated_data by _handle_device_update: one,
\* unless apply_signalr_updates raised.
Notifications(before, r) == IF r.raised THEN 0 ELSE 1

\* _handle_device_update: merge the batch into the live tree, then
\* async_set_updated_data with the same list; an exception of either is
\* caught and logged.  The deviceStateNotification messages come from a
\* started channel.
HandleDeviceUpdate(message) ==
    LET r == apply_signalr_updates(data, message)
    IN /\ op = "idle"
       /\ hub_connection.state = "open"
       /\ data' = r.tree
       /\ merged' = r.merged
       /\ pre' = data
       /\ msg' = message
       /\ notified' = Notifications(data, r)
       /\ logged' = r.raised
       /\ op' = "push"
       /\ UNCHANGED <<credVars, lifeVars, taskVars>>

\* _async_update_data with get_device_states answering a tree:
\* async_set_updated_data replaces the tree.
PollOk(tree) ==
    /\ op = "idle"
    /\ data' = tree
    /\ pre' = data
    /\ msg' = <<>>
    /\ merged' = <<>>
    /\ notified' = 1
    /\ logged' = FALSE
    /\ op' = "poll"
    /\ UNCHANGED <<credVars, lifeVars, taskVars>>

\* The tree after a poll that raised, were it dropped
Cleared(tree) == <<>>
\* The tree after a poll that raised: get_device_states raised before
\* async_set_updated_data, self.data is what it was.
LastGood(tree) == tree

\* _async_update_data with get_device_states raising: UpdateFailed, the
\* tree is not touched.
PollFailed ==
    /\ op = "idle"
    /\ data' = LastGood(data)
    /\ pre' = data
    /\ msg' = <<>>
    /\ merged' = <<>>
    /\ notified' = 0
    /\ logged' = FALSE
    /\ op' = "poll_failed"
    /\ UNCHANGED <<credVars, lifeVars, taskVars>>

\* The client of the activation and the channel the coordinator holds.
Client ==
    [rt |-> refresh_token, id |-> id_token, api |-> api_token, exp |-> expiry_date,
     stored |-> stored, calls |-> <<>>, va |-> None, hub |-> hub_connection]

\* The answers of the servers to a switch command.
ToggleEnv(toggle) == [toggle |-> toggle]

\* RelayBin.async_turn_on, called by the host; "raise" when is_on raised.
AsyncTurnOn(env) ==
    /\ op = "idle"
    /\ calls' = async_turn_on(Client, env, data, entity).calls
    /\ ret' = IF is_on(data, entity) = "raise" THEN "raise" ELSE None
    /\ pre' = data
    /\ op' = "turn_on"
    /\ UNCHANGED <<data, msg, merged, notified, logged, now, refresh_token, id_token,
                   api_token, expiry_date, stored, va, phase, timer, lifeVars, taskVars>>

\* RelayBin.async_turn_off, called by the host.
AsyncTurnOff(env) ==
    /\ op = "idle"
    /\ calls' = async_turn_off(Client, env, data, entity).calls
    /\ ret' = IF is_on(data, entity) = "raise" THEN "raise" ELSE None
    /\ pre' = data
    /\ op' = "turn_off"
    /\ UNCHANGED <<data, msg, merged, notified, logged, now, refresh_token, id_token,
                   api_token, expiry_date, stored, va, phase, timer, lifeVars, taskVars>>

\* The callback returns to the event loop, which runs one callback at a
\* time: the record of what the callback did is dropped.
LoopReturn ==
    /\ op # "idle"
    /\ op' = "idle"
    /\ msg' = <<>>
    /\ pre' = data
    /\ merged' = <<>>
    /\ notified' = 0
    /\ logged' = FALSE
    /\ calls' = <<>>
    /\ ret' = None
    /\ va' = None
    /\ system' = NoSystem
    /\ fanout' = NoFanout
    /\ UNCHANGED <<data, now, refresh_token, id_token, api_token, expiry_date,
                   stored, phase, timer, hub_connection, registry, entity, taskVars>>

NextStore ==
    \/ \E message \in Batches : HandleDeviceUpdate(message)
    \/ \E tree \in ServerTrees : PollOk(tree)
    \/ PollFailed
    \/ \E toggle \in PlainResponses : AsyncTurnOn(ToggleEnv(toggle))
    \/ \E toggle \in PlainResponses : AsyncTurnOff(ToggleEnv(toggle))
    \/ LoopReturn

SpecStore == InitStore /\ [][NextStore]_vars

(***************************************************************************)
(* Claims about the push merge, checked under SpecStore.                   *)
(***************************************************************************)
\* The State records of a tree that an update names by
\* (zigbeeId, deviceNumber, state type), as <<snapin, device, state>> positions.
Paths(tree, u) ==
    IF ~(Truthy(u.zigbeeId) /\ u.hasState) THEN {}
    ELSE { p \in UNION { UNION { { <<si, di, sti>> :
                                   sti \in 1..Len(tree[si].devices[di].states) } :
                                 di \in 1..Len(tree[si].devices) } :
                         si \in 1..Len(tree) } :
           /\ tree[p[1]].zigbeeId = u.zigbeeId
           /\ tree[p[1]].devices[p[2]].deviceNumber = u.deviceNumber
           /\ tree[p[1]].devices[p[2]].states[p[3]].type = u.type }

DataAt(tree, p) == tree[p[1]].devices[p[2]].states[p[3]].data

SameTarget(u, v) ==
    /\ u.zigbeeId = v.zigbeeId
    /\ u.deviceNumber = v.deviceNumber
    /\ u.type = v.type

\* The tree without its data mappings: which records exist, in which order.
Shape(tree) ==
    [si \in 1..Len(tree) |->
        [zigbeeId |-> tree[si].zigbeeId,
         devices  |-> [di \in 1..Len(tree[si].devices) |->
            [deviceNumber |-> tree[si].devices[di].deviceNumber,
             deviceType   |-> tree[si].devices[di].deviceType,
             types        |-> [sti \in 1..Len(tree[si].devices[di].states) |->
                                  tree[si].devices[di].states[sti].type]]]]]

\* C1: after a push message, every update of the batch that names an
\* existing State record has been merged into it, wherever it stands in
\* the batch: the record holds the update's value for each of its keys
\* (unless a later update of the batch for the same record sets that key).
C1_WholeBatchMerged ==
    op = "push" =>
        \A i \in 1..Len(msg) : \A p \in Paths(pre, msg[i]) : \A k \in DOMAIN msg[i].data :
            (\A j \in (i + 1)..Len(msg) :
                ~(SameTarget(msg[j], msg[i]) /\ msg[j].hasState /\ k \in DOMAIN msg[j].data))
            => /\ k \in DOMAIN DataAt(data, p)
               /\ DataAt(data, p)[k] = msg[i].data[k]

SetClient(c) ==
    /\ refresh_token' = c.rt
    /\ id_token' = c.id
    /\ api_token' = c.api
    /\ expiry_date' = c.exp
    /\ stored' = c.stored
    /\ calls' = c.calls
    /\ va' = c.va
    /\ hub_connection' = c.hub

Env(b, l, loc, ds, neg, rooms, docks, toggle, hub) ==
    [b2c |-> b, login |-> l, loc |-> loc, ds |-> ds, neg |-> neg,
     rooms |-> rooms, docks |-> docks, toggle |-> toggle, hub |-> hub]

\* async_set_updated_data after a callback that fetched (or failed to
\* fetch) the device states.
SetData(fetched, tree) ==
    /\ data' = IF fetched THEN tree ELSE LastGood(data)
    /\ pre' = data
    /\ msg' = <<>>
    /\ merged' = <<>>
    /\ logged' = FALSE

Fetched(c) == \E i \in 1..Len(c.calls) : c.calls[i].kind = "deviceStates" /\ c.calls[i].rsp = "ok"

\* The calls of async_set_updated_data: one after each full fetch.
Fetches(c) == Cardinality({i \in 1..Len(c.calls) :
                              c.calls[i].kind = "deviceStates" /\ c.calls[i].rsp = "ok"})

\* The entities switch.async_setup_entry creates from the topology.
SwitchEntities(topology, tree) ==
    {RelayBin(tree, RelayDocks(topology)[i]) : i \in 1..Len(RelayDocks(topology))}

InitActivation ==
    /\ InitCred
    /\ data = <<>>
    /\ op = "idle"
    /\ msg = <<>>
    /\ pre = <<>>
    /\ merged = <<>>
    /\ notified = 0
    /\ logged = FALSE
    /\ hub_connection = NoHub
    /\ registry = FALSE
    /\ system = NoSystem
    /\ fanout = NoFanout
    /\ entity = NoEntity
    /\ NoTasks

Tick ==
    /\ op = "idle"
    /\ now < MaxTime
    /\ now' = now + 1
    /\ UNCHANGED <<storeVars, refresh_token, id_token, api_token,
                   expiry_date, stored, calls, ret, va, phase, timer, lifeVars, taskVars>>

\* async_setup_entry: discover_system, the timer, the first refresh, the
\* registry entry, async_start_signalr, then the platform's entities; an
\* exception at any of them ends it there.  Of the entities the model
\* follows the one of the SnapIn the tree holds.
AsyncSetupEntry(env) ==
    /\ op = "idle"
    /\ phase = "new"
    /\ \E d \in {discover_system(Client, env, now)} :
       \E g \in {get_device_states(d.c, env, now)} :
       \E h \in {async_start_signalr(g.c, env, now)} :
       LET failed == IF d.raised THEN "discovery"
                     ELSE IF g.raised THEN "refresh"
                     ELSE IF h.raised THEN "start" ELSE "no"
           c == IF d.raised THEN d.c ELSE IF g.raised THEN g.c ELSE h.c
       IN /\ SetClient(c)
          /\ phase' = IF failed = "no" THEN "running" ELSE "failed"
          /\ timer' = (failed # "discovery")
          /\ registry' = (failed \in {"start", "no"})
          /\ system' = IF d.raised THEN NoSystem ELSE [returned |-> TRUE, rooms |-> d.result]
          /\ fanout' = IF \E i \in 1..Len(d.c.calls) :
                              d.c.calls[i].kind = "rooms" /\ d.c.calls[i].rsp = "ok"
                       THEN [list |-> env.rooms.list, order |-> env.rooms.order]
                       ELSE NoFanout
          /\ entity' = IF failed = "no"
                       THEN CHOOSE e \in SwitchEntities(d.result, SmallTree) :
                                e.zigbee_id = SmallTree[1].zigbeeId
                       ELSE NoEntity
          /\ SetData(Fetched(c), SmallTree)
          /\ notified' = Fetches(c)
    /\ op' = "setup"
    /\ ret' = None
    /\ UNCHANGED <<now, taskVars>>

\* _check_tokens: reauthenticate_if_needed and, when it returns True,
\* _reconnect_signalr.
CheckTokens(env) ==
    /\ op = "idle"
    /\ timer
    /\ \E r \in {reauthenticate_if_needed(Client, env, now)} :
       \E c \in {IF r.ret THEN reconnect_signalr(r.c, env, now) ELSE r.c} :
          /\ SetClient(c)
          /\ ret' = IF r.ret THEN "True" ELSE "False"
          /\ SetData(Fetched(c), SmallTree)
          /\ notified' = Fetches(c)
    /\ op' = "check"
    /\ UNCHANGED <<now, phase, timer, registry, system, fanout, entity, taskVars>>

\* A coordinator that polls only while no push channel is started
PollOnlyWithoutPush == phase = "running" /\ hub_connection.state # "open"
\* The coordinator is given update_interval once, at construction: it
\* refreshes at that interval while the activation runs, whatever the push
\* channel does.
PollScheduled == phase = "running"

\* _async_update_data: get_device_states, UpdateFailed when it raises.
PollTick(env) ==
    /\ op = "idle"
    /\ PollScheduled
    /\ \E g \in {get_device_states(Client, env, now)} :
          /\ SetClient(g.c)
          /\ SetData(~g.raised, SmallTree)
          /\ notified' = Fetches(g.c)
          /\ op' = IF g.raised THEN "poll_failed" ELSE "poll"
    /\ ret' = None
    /\ UNCHANGED <<now, phase, timer, registry, system, fanout, entity, taskVars>>

\* RelayBin.toggle: toggle_light for the bound dock and device.
Toggle(env) ==
    /\ op = "idle"
    /\ phase = "running"
    /\ \E c \in {toggle_light(Client, env, entity.dock_number, entity.dock_device_number)} :
          SetClient(c)
    /\ op' = "toggle"
    /\ ret' = None
    /\ UNCHANGED <<data, msg, pre, merged, notified, logged, now, phase, timer,
                   registry, system, fanout, entity, taskVars>>

\* async_unload_entry: the coordinator is looked up in the registry (a
\* KeyError when the entry is not there), its channel stopped, the
\* platform unloaded and, when that succeeded, the registry entry removed.
\* The host decides when to unload.
AsyncUnloadEntry(env, unload_ok) ==
    /\ op = "idle"
    /\ registry
    /\ \E s \in {async_stop_signalr(Client, env)} :
          /\ SetClient(s.c)
          /\ registry' = IF s.raised THEN registry ELSE ~unload_ok
          /\ phase' = IF unload_ok /\ ~s.raised THEN "unloaded" ELSE phase
          /\ entity' = IF unload_ok /\ ~s.raised THEN NoEntity ELSE entity
          /\ ret' = IF s.raised THEN "raise" ELSE None
    /\ op' = "unload"
    /\ pre' = data
    /\ UNCHANGED <<data, msg, merged, notified, logged, now, timer, system, fanout,
                   taskVars>>

NoB2C == [err |-> TRUE, id |-> FALSE, rt |-> FALSE]
NoLogin == [err |-> TRUE, token |-> FALSE, expires |-> 0]
NoLocation == [err |-> TRUE, status |-> 0]
NoRooms == [rsp |-> "err", list |-> <<>>, order |-> <<>>]
NoDocks == [r \in RoomIds |-> "err"]
NoHubAnswer == [start |-> "err", stop |-> "err"]

\* Answers of getRooms: an error, or a room list, with the order in which
\* the dock fetches of its rooms then complete.
RoomsResponses ==
    {NoRooms} \cup UNION {{[rsp |-> "ok", list |-> l, order |-> o] : o \in Orders(Len(l))} :
                          l \in RoomLists}

\* How the channel library answers start() and stop(); when stop() raises,
\* start() is not reached.
HubAnswers ==
    { [start |-> "ok", stop |-> "ok"], [start |-> "err", stop |-> "ok"],
      [start |-> "ok", stop |-> "err"] }

\* The answers of the token chain, enumerated when the callback asks for
\* them.
ChainAnswers(asked) ==
    IF asked
    THEN {[b2c |-> b, login |-> l] : b \in B2CResponses, l \in LoginResponses}
    ELSE {[b2c |-> NoB2C, login |-> NoLogin]}

LocationAnswers(asked) == IF asked THEN LocationResponses ELSE {NoLocation}

AllDocks(rsp) == [r \in RoomIds |-> rsp]

\* The credential manager under every answer of the token chain, with a
\* channel library whose start() and stop() succeed.
NextCred ==
    \/ Tick
    \/ \E ch \in ChainAnswers(TRUE), loc \in LocationResponses,
          rooms \in {NoRooms, [rsp |-> "ok", list |-> <<Hall, Kitchen>>, order |-> <<1, 2>>]},
          docks \in PlainResponses, ds \in PlainResponses, neg \in PlainResponses :
          AsyncSetupEntry(Env(ch.b2c, ch.login, loc, ds, neg, rooms, AllDocks(docks), "err",
                              [start |-> "ok", stop |-> "ok"]))
    \/ \E ch \in ChainAnswers(~verify_token_validity(Client, now)),
          ds \in PlainResponses, neg \in PlainResponses :
          CheckTokens(Env(ch.b2c, ch.login, NoLocation, ds, neg, NoRooms, NoDocks, "err",
                          [start |-> "ok", stop |-> "ok"]))
    \/ \E ch \in ChainAnswers(~Truthy(api_token)), loc \in LocationAnswers(~Truthy(api_token)),
          ds \in PlainResponses :
          PollTick(Env(ch.b2c, ch.login, loc, ds, "err", NoRooms, NoDocks, "err", NoHubAnswer))
    \/ \E toggle \in PlainResponses :
          Toggle(Env(NoB2C, NoLogin, NoLocation, "err", "err", NoRooms, NoDocks, toggle,
                     NoHubAnswer))
    \/ LoopReturn

SpecCred == InitActivation /\ [][NextCred]_vars

\* The answers of the token chain in the life cycle below: both exchanges
\* succeed, or both fail.
ChainOk == [b2c |-> [err |-> FALSE, id |-> TRUE, rt |-> TRUE],
            login |-> [err |-> FALSE, token |-> TRUE, expires |-> Max(ExpiresIn)]]
ChainErr == [b2c |-> NoB2C, login |-> NoLogin]

\* The life cycle of the activation: setup under every answer of discovery
\* and of the channel library, the token check with its reconnect, the
\* poll, push messages of one update and the unload.
NextLife ==
    \/ Tick
    \/ \E ch \in {ChainOk, ChainErr}, rooms \in RoomsResponses,
          docks \in [RoomIds -> PlainResponses], ds \in PlainResponses,
          neg \in NegotiateResponses, start \in PlainResponses :
          AsyncSetupEntry(Env(ch.b2c, ch.login, [err |-> FALSE, status |-> 200], ds, neg,
                              rooms, docks, "err", [start |-> start, stop |-> "err"]))
    \/ \E ch \in {ChainOk, ChainErr}, ds \in PlainResponses, neg \in NegotiateResponses,
          hub \in HubAnswers :
          CheckTokens(Env(ch.b2c, ch.login, NoLocation, ds, neg, NoRooms, NoDocks, "err", hub))
    \/ \E ds \in PlainResponses :
          PollTick(Env(ChainErr.b2c, ChainErr.login, NoLocation, ds, "err", NoRooms, NoDocks,
                       "err", NoHubAnswer))
    \/ \E stop \in PlainResponses, unload_ok \in BOOLEAN :
          AsyncUnloadEntry(Env(NoB2C, NoLogin, NoLocation, "err", "err", NoRooms, NoDocks,
                               "err", [start |-> "err", stop |-> stop]), unload_ok)
    \/ \E update \in Updates : HandleDeviceUpdate(<<update>>)
    \/ LoopReturn

SpecLife == InitActivation /\ [][NextLife]_vars

(***************************************************************************)
(* Claims about the credential manager, checked under SpecCred.            *)
(***************************************************************************)
Kinds(k) == {i \in 1..Len(calls) : calls[i].kind = k}

\* The requests that send the API token as bearer.
BearerKinds == {"location", "deviceStates", "rooms", "docks", "negotiate", "toggle"}

C5_NoOpWhenValid ==
    [][(op = "idle" /\ op' = "check" /\ expiry_date # NoExpiry /\ now < expiry_date - HOUR)
        => /\ calls' = <<>>
           /\ ret' = "False"
           /\ UNCHANGED <<refresh_token, id_token, api_token, expiry_date, stored>>]_vars

\* A token check that ran while the token was valid.
C5_Witness ==
    /\ op = "check"
    /\ ret = "False"
    /\ calls = <<>>
    /\ Truthy(api_token)
    /\ expiry_date - now > HOUR

C7_TokenAndExpiryTogether ==
    /\ Truthy(api_token) <=> expiry_date # NoExpiry
    /\ verify_token_validity(Client, now) => Truthy(api_token)

\* C8: every request that sends the API token as bearer is sent with a
\* token held and not after its expiry.
C8_BearerNeverAbsentOrStale ==
    \A i \in 1..Len(calls) :
        calls[i].kind \in BearerKinds =>
            /\ Truthy(calls[i].tok)
            /\ calls[i].exp # NoExpiry
            /\ now <= calls[i].exp

\* C9: reauthenticate_if_needed returns True only when both exchanges of
\* its chain succeeded, so _check_tokens reconnects only then.
C9_TrueOnlyIfRotated ==
    (op = "check" /\ ret = "True") =>
        /\ calls # <<>>
        /\ calls[1].kind = "b2c"
        /\ calls[1].rsp = "ok"
        /\ Kinds("login") # {}
        /\ calls[Min(Kinds("login"))].rsp = "ok"

\* C10: in a run of verify_access (the last chain of a callback), the API
\* exchange is attempted exactly when the identity exchange succeeded, the
\* location check exactly when the API exchange succeeded, and the result
\* is True exactly when the location check answered 2xx, False otherwise.
C10_VerifyAccessChain ==
    va # None =>
        LET B == Max(Kinds("b2c"))
            L == {j \in Kinds("login") : j > B}
            K == {j \in Kinds("location") : j > B}
        IN /\ Kinds("b2c") # {}
           /\ va \in {"True", "False"}
           /\ Cardinality(L) <= 1 /\ Cardinality(K) <= 1
           /\ (L # {}) <=> (calls[B].rsp = "ok")
           /\ (K # {}) <=> (\E j \in L : calls[j].rsp = "ok")
           /\ \A j \in L : \A k \in K : j < k
           /\ (va = "True") <=>
                 (\E k \in K : calls[k].rsp = "ok" /\ calls[k].status \in 200..299)

\* verify_access got through both exchanges and was refused the location.
C10_Witness ==
    /\ va = "False"
    /\ \E k \in Kinds("location") : calls[k].status = 403
    /\ \E j \in Kinds("login") : calls[j].rsp = "ok"

(***************************************************************************)
(* Claims about discovery, setup and the push channel, checked under       *)
(* SpecLife.                                                               *)
(***************************************************************************)
\* C11: discover_system is all-or-nothing.  When the room-list request or
\* the dock request of any room failed, it raised (setup failed there,
\* nothing was sent after it) and returned no topology; when all succeeded
\* it asked for the docks of each room once and returned one entry per
\* room of the list, in the order of the list, whatever the order in which
\* the dock fetches completed.
C11_DiscoveryAllOrNothing ==
    op = "setup" =>
        LET asked == Kinds("rooms") \cup Kinds("docks")
            failed == \E i \in asked : calls[i].rsp = "err"
        IN /\ Cardinality(Kinds("rooms")) = 1
           /\ failed =>
                 /\ ~system.returned
                 /\ system.rooms = <<>>
                 /\ phase = "failed"
                 /\ ~registry
                 /\ calls[Len(calls)].kind \in {"rooms", "docks"}
           /\ ~failed =>
                 /\ system.returned
                 /\ Cardinality(Kinds("docks")) = Len(fanout.list)
                 /\ Len(system.rooms) = Len(fanout.list)
                 /\ \A i \in 1..Len(fanout.list) :
                       /\ system.rooms[i].room_id = fanout.list[i].id
                       /\ system.rooms[i].room_name = fanout.list[i].name
                       /\ system.rooms[i].docks = DocksOf(fanout.list[i].id)

\* Discovery succeeded for two rooms whose dock fetches completed in the
\* reverse of the room-list order.
C11_Witness ==
    /\ op = "setup"
    /\ system.returned
    /\ Len(fanout.list) = 2
    /\ fanout.order = <<2, 1>>
    /\ system.rooms[1].room_id = fanout.list[1].id
    /\ system.rooms[1].room_id # system.rooms[2].room_id

(***************************************************************************)
(* Claims about the switch entity and the push handler, checked under      *)
(* SpecStore.                                                              *)
(***************************************************************************)
\* The state field of the PowerState record of the entity's bound
\* (zigbeeId, deviceNumber) device in a tree; None when there is none.
BoundPower(tree, e) ==
    LET si  == FirstSnapIn(tree, e.zigbee_id)
        di  == IF si = 0 THEN 0 ELSE DeviceIndex(tree[si].devices, e.dock_device_number)
        sti == IF di = 0 THEN 0 ELSE StateIndex(tree[si].devices[di].states, "PowerState")
    IN IF sti = 0 THEN None
       ELSE IF "state" \in DOMAIN tree[si].devices[di].states[sti].data
            THEN tree[si].devices[di].states[sti].data.state
            ELSE None

\* The positions of a batch that deliver a PowerState for the bound device.
PushedPower(batch, e) ==
    {i \in 1..Len(batch) :
        /\ batch[i].zigbeeId = e.zigbee_id
        /\ batch[i].deviceNumber = e.dock_device_number
        /\ batch[i].hasState
        /\ batch[i].type = "PowerState"
        /\ "state" \in DOMAIN batch[i].data}

OnOff(v) == IF v = "ON" THEN "True" ELSE "False"

\* C12: once a poll has delivered a tree holding the PowerState of the
\* entity's bound device, or a push has delivered PowerState updates for
\* it, is_on is whether the most recently delivered one has state "ON".
C12_IsOnLatestPower ==
    entity.dock_device_number # NoDevice =>
        /\ (op = "poll" /\ BoundPower(data, entity) # None)
              => is_on(data, entity) = OnOff(BoundPower(data, entity))
        /\ (op = "push" /\ BoundPower(pre, entity) # None /\ PushedPower(msg, entity) # {})
              => is_on(data, entity) = OnOff(msg[Max(PushedPower(msg, entity))].data.state)

\* C13: async_turn_on sends one toggle command when is_on is false and
\* none when it is true, async_turn_off one when is_on is true and none
\* when it is false, each for the dock number and device number the entity
\* holds since its construction.
C13_ToggleIfNotInTarget ==
    /\ op = "turn_on" =>
          /\ is_on(data, entity) = "False" => Cardinality(Kinds("toggle")) = 1
          /\ is_on(data, entity) = "True" => Kinds("toggle") = {}
    /\ op = "turn_off" =>
          /\ is_on(data, entity) = "True" => Cardinality(Kinds("toggle")) = 1
          /\ is_on(data, entity) = "False" => Kinds("toggle") = {}
    /\ \A i \in Kinds("toggle") :
          /\ calls[i].dockNumber = entity.dock_number
          /\ calls[i].deviceNumber = entity.dock_device_number
    /\ op \in {"turn_on", "turn_off"} => (Len(calls) <= 1 /\ data = pre)

\* async_turn_on while the light is on sent nothing; the entity is bound to
\* a device of the tree.
C13_Witness ==
    /\ op = "turn_on"
    /\ is_on(data, entity) = "True"
    /\ calls = <<>>
    /\ entity.dock_device_number # NoDevice

\* Every State record of a tree, as <<snapin, device, state>> positions.
AllPaths(tree) ==
    UNION { UNION { { <<si, di, sti>> : sti \in 1..Len(tree[si].devices[di].states) } :
                    di \in 1..Len(tree[si].devices) } :
            si \in 1..Len(tree) }

\* (zigbeeId, deviceNumber, state type) names at most one State record.
Unique(tree) ==
    \A p, q \in AllPaths(tree) :
        ( /\ tree[p[1]].zigbeeId = tree[q[1]].zigbeeId
          /\ tree[p[1]].devices[p[2]].deviceNumber = tree[q[1]].devices[q[2]].deviceNumber
          /\ tree[p[1]].devices[p[2]].states[p[3]].type
                = tree[q[1]].devices[q[2]].states[q[3]].type ) => p = q

SomePush == \E message \in Batches : HandleDeviceUpdate(message)

\* C20: a push message handed to _handle_device_update is merged into the
\* live tree and followed by exactly one data-changed notification, or it
\* raised and the error was logged (and then nothing was notified); either
\* way the handler returns and the next message is handled.
C20_PushMergedAndNotified ==
    /\ op = "push" =>
          /\ notified <= 1
          /\ logged <=> notified = 0
          /\ ~logged => data = apply_signalr_updates(pre, msg).tree
    /\ (op = "idle" /\ hub_connection.state = "open") => ENABLED SomePush

\* A message that found no record: nothing changed, one notification.
C20_Witness ==
    /\ op = "push"
    /\ Len(msg) >= 1
    /\ data = pre
    /\ ~logged
    /\ notified = 1

(***************************************************************************)
(* Claims about stopping, polling and reconnecting, checked under SpecLife. *)
(***************************************************************************)
\* C14: async_stop_signalr (run by async_unload_entry) stops the channel
\* the coordinator holds, once, and sends nothing when it holds none (never
\* opened, or already stopped); afterwards the coordinator holds no
\* channel and no exception has escaped, also when stop() raised.
C14_StopLeavesNoChannel ==
    [][op' = "unload" =>
          /\ hub_connection' = NoHub
          /\ ret' # "raise"
          /\ hub_connection.state = "none" => calls' = <<>>
          /\ hub_connection.state # "none" =>
                /\ Len(calls') = 1
                /\ calls'[1].kind = "hub_stop"
                /\ calls'[1].tok = hub_connection.token]_vars

\* stop() raised while the entry was unloaded: no channel is held.
C14_Witness ==
    /\ op = "unload"
    /\ Len(calls) = 1
    /\ calls[1].kind = "hub_stop"
    /\ calls[1].rsp = "err"
    /\ hub_connection = NoHub
    /\ phase = "unloaded"

SomePoll ==
    \E ds \in PlainResponses :
        PollTick(Env(ChainErr.b2c, ChainErr.login, NoLocation, ds, "err", NoRooms, NoDocks,
                     "err", NoHubAnswer))

SomeMessage == \E update \in Updates : HandleDeviceUpdate(<<update>>)

\* C15: a poll tick whose fetch raised ends as UpdateFailed with the tree
\* as it was and nothing notified; the activation and its channel are as
\* they were, so the next poll tick and the next push message are handled.
C15_FailedPollKeepsTree ==
    /\ op = "poll_failed" =>
          /\ data = pre
          /\ notified = 0
          /\ calls # <<>>
          /\ calls[Len(calls)].kind = "deviceStates"
          /\ calls[Len(calls)].rsp = "err"
          /\ phase = "running"
    /\ (op = "idle" /\ phase = "running") => ENABLED SomePoll
    /\ (op = "idle" /\ hub_connection.state = "open") => ENABLED SomeMessage

\* A poll failed while a tree was held and the channel open.
C15_Witness ==
    /\ op = "poll_failed"
    /\ data # <<>>
    /\ data = pre
    /\ hub_connection.state = "open"

\* C16: after a failed async_setup_entry no token-check timer is
\* registered, no channel is held and the registry has no entry.
C16_NothingHalfInitialized ==
    phase = "failed" =>
        /\ ~timer
        /\ hub_connection = NoHub
        /\ ~registry

C19_ReconnectFreshToken ==
    (op = "check" /\ ret = "True" /\ phase = "running") =>
        \A s \in Kinds("hub_start") :
            /\ \A p \in Kinds("hub_stop") : p < s
            /\ \E n \in Kinds("negotiate") :
                  /\ n < s
                  /\ \A p \in Kinds("hub_stop") \cup Kinds("login") : p < n
                  /\ calls[n].rsp = "ok"
                  /\ calls[n].tok = api_token
                  /\ calls[s].tok = calls[n].got
                  /\ calls[s].tok = Realtime

(***************************************************************************)
(* Claims about failure values, checked under the specifications above.    *)
(***************************************************************************)
\* C22: a refresh-token exchange that failed (transport error, error
\* status, or an answer without an identity token) is not followed by a
\* call of the persistence callback.
C22_FailedExchangeSavesNothing ==
    \A i \in Kinds("b2c") :
        calls[i].rsp # "ok" => (i = Len(calls) \/ calls[i + 1].kind # "save")

\* C23: is_on never raises, and is False when the tree holds no PowerState
\* record for the entity's bound device.
C23_IsOnDefined ==
    /\ is_on(data, entity) # "raise"
    /\ BoundPower(data, entity) = None => is_on(data, entity) = "False"

\* C24: once async_unload_entry has unloaded the entry, the coordinator
\* holds no channel and no callback starts one.
C24_StoppedIsStable ==
    phase = "unloaded" =>
        /\ hub_connection = NoHub
        /\ Kinds("hub_start") = {}

\* C26: a channel is built, and started, only with the accessToken of a
\* negotiate answer.
C26_ChannelOnlyWithNegotiatedToken ==
    /\ hub_connection # NoHub => hub_connection.token = Realtime
    /\ \A s \in Kinds("hub_start") : calls[s].tok = Realtime

(***************************************************************************)
(* The coroutines on the event loop, step by step.  A coroutine runs from  *)
(* one await to the next without interruption; while it is suspended the   *)
(* loop runs the other coroutines and the queued callbacks.  task[t].pc is *)
(* the await coroutine t is suspended at, task[t].sent the token its       *)
(* request in flight carries (read when the request was built),            *)
(* task[t].chan the channel object whose start() or stop() it awaits.      *)
(* Here self.hub_connection is the identity of a channel object: an index  *)
(* of channels, or NoChannel for None.  The clock stands still: the steps  *)
(* of one firing take seconds.                                             *)
(***************************************************************************)
\* bound on the firings of each coroutine
MaxRuns == 1

\* bound on the messages the channel's thread delivers
MaxArrivals == 3

\* self.hub_connection = None
NoChannel == 0

\* The deviceStateNotification payloads delivered here: two updates of the
\* same State record.
Messages ==
    { << Upd("Z1", 1, TRUE, "PowerState", [state |-> "ON"]) >>,
      << Upd("Z1", 1, TRUE, "PowerState", [state |-> "OFF", ts |-> "t1"]) >> }

\* A running activation, the timers about to fire.  Either the token chain
\* of setup is held and the channel started at setup is open, or the last
\* token check got a login answer without a token and its reconnect failed
\* after stopping the channel: no API token is held, the expiry is the old
\* one and the stopped channel is still referenced.
InitTasks ==
    /\ \E s \in {[now |-> 0, held |-> TRUE], [now |-> 1, held |-> TRUE],
                 [now |-> 1, held |-> FALSE]} :
          /\ now = s.now
          /\ api_token = IF s.held THEN NewApi(None) ELSE None
          /\ channels = << [state |-> IF s.held THEN "open" ELSE "closed",
                            token |-> Realtime] >>
    /\ hub_connection = 1
    /\ refresh_token = NewRefresh("R0")
    /\ id_token = NewId(None)
    /\ expiry_date = Max(ExpiresIn)
    /\ stored = NewRefresh("R0")
    /\ calls = <<>>
    /\ ret = None
    /\ va = None
    /\ phase = "running"
    /\ timer = TRUE
    /\ registry = TRUE
    /\ system = NoSystem
    /\ fanout = NoFanout
    /\ data = HouseTree("OFF", "ON")
    /\ op = "idle"
    /\ msg = <<>>
    /\ pre = <<>>
    /\ merged = <<>>
    /\ notified = 0
    /\ logged = FALSE
    /\ entity = RelayBin(HouseTree("OFF", "ON"), DocksOf(Hall.id)[1])
    /\ task = [t \in Tasks |-> Idle]
    /\ ready = <<>>
    /\ arrived = <<>>
    /\ applied = <<>>

\* hass.loop.call_soon_threadsafe with the callbacks in reverse order
CallSoonLifo(queue, message) == <<message>> \o queue
\* hass.loop.call_soon_threadsafe(self._handle_device_update, data): the
\* callback is appended to the loop's queue.
call_soon_threadsafe(queue, message) == Append(queue, message)

\* A channel after its stop(): stopped, or, when stop() raised, in a state
\* only the channel library knows ("broken"), which is not counted as
\* started.
Stopped(rsp) == IF rsp = "ok" THEN "closed" ELSE "broken"

\* The coroutine t suspended at an await.
Await(t, pc, sent, chain, chan) ==
    [task EXCEPT ![t] = [pc |-> pc, sent |-> sent, chain |-> chain, chan |-> chan,
                         runs |-> @.runs]]

\* The coroutine t finished.
Done(t) == Await(t, "idle", None, None, NoChannel)

\* get_device_states up to its first await: verify_access, which starts
\* with the refresh-token exchange, when no API token is held; the
\* deviceStates request otherwise.
GetDeviceStates(t, api, rt) ==
    IF ~Truthy(api) THEN Await(t, "b2c", rt, "verify", NoChannel)
    ELSE Await(t, "fetch", api, None, NoChannel)

\* get_device_states after verify_access returned: the deviceStates
\* request with the API token held, whatever verify_access returned.
Fetch(t, api) == Await(t, "fetch", api, None, NoChannel)

\* _reconnect_signalr up to its first await: stop() of the channel held,
\* or the sleep when none is held.
Reconnect(t) ==
    IF hub_connection # NoChannel THEN Await(t, "stop", None, None, hub_connection)
    ELSE Await(t, "sleep", None, None, NoChannel)

\* The timer fires _check_tokens: reauthenticate_if_needed returns False
\* when the token is valid, and sends the refresh-token exchange otherwise.
CheckFire ==
    /\ timer
    /\ task["check"].pc = "idle"
    /\ task["check"].runs < MaxRuns
    /\ task' = [(IF verify_token_validity(Client, now)
                 THEN task
                 ELSE Await("check", "b2c", refresh_token, "reauth", NoChannel))
                EXCEPT !["check"].runs = @ + 1]
    /\ UNCHANGED <<storeVars, credVars, lifeVars, channels, ready, arrived, applied>>

\* The coordinator's refresh fires: _async_update_data calls
\* get_device_states.
PollFire ==
    /\ PollScheduled
    /\ task["poll"].pc = "idle"
    /\ task["poll"].runs < MaxRuns
    /\ task' = [GetDeviceStates("poll", api_token, refresh_token)
                EXCEPT !["poll"].runs = @ + 1]
    /\ UNCHANGED <<storeVars, credVars, lifeVars, channels, ready, arrived, applied>>

\* The token endpoint answers the exchange of coroutine t: authenticate_b2c
\* assigns the tokens, awaits the callback and returns.  In
\* reauthenticate_if_needed authenticate_api follows whatever it returned;
\* in verify_access only when it returned True.
B2CReturn(t, answer) ==
    /\ task[t].pc = "b2c"
    /\ \E b \in {authenticate_b2c([Client EXCEPT !.rt = task[t].sent], [b2c |-> answer])} :
       LET assigned == b.c.calls[1].rsp # "err"
           id == IF assigned THEN b.c.id ELSE id_token
       IN /\ refresh_token' = IF assigned THEN b.c.rt ELSE refresh_token
          /\ id_token' = id
          /\ stored' = IF assigned THEN b.c.stored ELSE stored
          /\ task' = IF task[t].chain = "reauth" \/ b.ret
                     THEN Await(t, "login", id, task[t].chain, NoChannel)
                     ELSE Fetch(t, api_token)
    /\ UNCHANGED <<storeVars, now, api_token, expiry_date, calls, ret, va, phase, timer,
                   lifeVars, channels, ready, arrived, applied>>

\* UserAuth/login answers coroutine t: authenticate_api assigns the API
\* token and the expiry.  reauthenticate_if_needed then returns True and
\* _check_tokens starts _reconnect_signalr; verify_access goes on to the
\* location check when it returned True.
LoginReturn(t, answer) ==
    /\ task[t].pc = "login"
    /\ \E a \in {authenticate_api([Client EXCEPT !.id = task[t].sent], [login |-> answer], now)} :
       LET assigned == a.c.calls[1].rsp # "err"
           api == IF assigned THEN a.c.api ELSE api_token
       IN /\ api_token' = api
          /\ expiry_date' = IF assigned THEN a.c.exp ELSE expiry_date
          /\ task' = IF task[t].chain = "reauth" THEN Reconnect(t)
                     ELSE IF a.ret THEN Await(t, "location", api, "verify", NoChannel)
                     ELSE Fetch(t, api)
    /\ UNCHANGED <<storeVars, now, refresh_token, id_token, stored, calls, ret, va, phase,
                   timer, lifeVars, channels, ready, arrived, applied>>

\* The location check of verify_access answers: get_device_states does
\* not look at what verify_access returns.
LocationReturn(t, answer) ==
    /\ task[t].pc = "location"
    /\ task' = Fetch(t, api_token)
    /\ UNCHANGED <<storeVars, credVars, lifeVars, channels, ready, arrived, applied>>

\* The deviceStates request of the refresh answers: _async_update_data
\* returns the tree, which the coordinator sets, or raises UpdateFailed.
PollFetchReturn(rsp) ==
    /\ task["poll"].pc = "fetch"
    /\ data' = IF Answer(task["poll"].sent, rsp) = "ok" THEN SmallTree ELSE LastGood(data)
    /\ task' = Done("poll")
    /\ UNCHANGED <<op, msg, pre, merged, notified, logged, credVars, lifeVars, channels,
                   ready, arrived, applied>>

\* stop() of the old channel returns to _reconnect_signalr: the sleep
\* follows, or the exception is caught and the reconnect ends.
ReconnectStopReturn(rsp) ==
    /\ task["check"].pc = "stop"
    /\ channels' = [channels EXCEPT ![task["check"].chan].state = Stopped(rsp)]
    /\ task' = IF rsp = "ok" THEN Await("check", "sleep", None, None, NoChannel)
               ELSE Done("check")
    /\ UNCHANGED <<storeVars, credVars, lifeVars, ready, arrived, applied>>

\* asyncio.sleep(1) returns: async_start_signalr calls get_device_states.
SleepReturn ==
    /\ task["check"].pc = "sleep"
    /\ task' = GetDeviceStates("check", api_token, refresh_token)
    /\ UNCHANGED <<storeVars, credVars, lifeVars, channels, ready, arrived, applied>>

\* The deviceStates request of async_start_signalr answers: the tree is
\* set and the negotiate request sent, or the exception ends the reconnect.
StartFetchReturn(rsp) ==
    /\ task["check"].pc = "fetch"
    /\ LET ok == Answer(task["check"].sent, rsp) = "ok"
       IN /\ data' = IF ok THEN SmallTree ELSE data
          /\ task' = IF ok THEN Await("check", "negotiate", api_token, None, NoChannel)
                     ELSE Done("check")
    /\ UNCHANGED <<op, msg, pre, merged, notified, logged, credVars, lifeVars, channels,
                   ready, arrived, applied>>

\* The negotiate request answers: async_start_signalr builds a channel
\* with whatever get_signalr_access_token returned, assigns it to
\* self.hub_connection and calls its start().
NegotiateReturn(rsp) ==
    /\ task["check"].pc = "negotiate"
    /\ \E n \in {get_signalr_access_token([Client EXCEPT !.api = task["check"].sent],
                                          [neg |-> rsp])} :
          channels' = Append(channels, [state |-> "built", token |-> n.ret])
    /\ hub_connection' = Len(channels) + 1
    /\ task' = Await("check", "start", None, None, Len(channels) + 1)
    /\ UNCHANGED <<storeVars, credVars, registry, system, fanout, entity, ready, arrived,
                   applied>>

\* start() returns to async_start_signalr.  A channel whose stop() ran
\* while its start() was running is left as stop() left it: whether it
\* runs is the channel library's matter, and it is not counted as started.
StartReturn(rsp) ==
    /\ task["check"].pc = "start"
    /\ LET n == task["check"].chan
       IN channels' = IF rsp = "ok" /\ channels[n].state = "built"
                      THEN [channels EXCEPT ![n].state = "open"]
                      ELSE channels
    /\ task' = Done("check")
    /\ UNCHANGED <<storeVars, credVars, lifeVars, ready, arrived, applied>>

\* The host calls async_unload_entry: async_stop_signalr calls stop() of
\* the channel held, or nothing when none is held.
UnloadFire ==
    /\ registry
    /\ task["unload"].pc = "idle"
    /\ task["unload"].runs < MaxRuns
    /\ task' = [(IF hub_connection # NoChannel
                 THEN Await("unload", "stop", None, None, hub_connection)
                 ELSE Await("unload", "platforms", None, None, NoChannel))
                EXCEPT !["unload"].runs = @ + 1]
    /\ UNCHANGED <<storeVars, credVars, lifeVars, channels, ready, arrived, applied>>

\* stop() returns to async_stop_signalr: whatever it did, the finally
\* block sets self.hub_connection to None.
UnloadStopReturn(rsp) ==
    /\ task["unload"].pc = "stop"
    /\ channels' = [channels EXCEPT ![task["unload"].chan].state = Stopped(rsp)]
    /\ hub_connection' = NoChannel
    /\ task' = Await("unload", "platforms", None, None, NoChannel)
    /\ UNCHANGED <<storeVars, credVars, registry, system, fanout, entity, ready, arrived,
                   applied>>

\* async_unload_platforms returns: the registry entry is popped when it
\* succeeded.
UnloadPlatformsReturn(unload_ok) ==
    /\ task["unload"].pc = "platforms"
    /\ registry' = ~unload_ok
    /\ phase' = IF unload_ok THEN "unloaded" ELSE phase
    /\ task' = Done("unload")
    /\ UNCHANGED <<storeVars, now, refresh_token, id_token, api_token, expiry_date, stored,
                   calls, ret, va, timer, hub_connection, system, fanout, entity, channels,
                   ready, arrived, applied>>

\* The thread of a started channel delivers deviceStateNotification: the
\* registered lambda queues _handle_device_update on the loop.
DeviceStateNotification(message) ==
    /\ \E n \in 1..Len(channels) : channels[n].state = "open"
    /\ Len(arrived) < MaxArrivals
    /\ ready' = call_soon_threadsafe(ready, message)
    /\ arrived' = Append(arrived, message)
    /\ UNCHANGED <<storeVars, credVars, lifeVars, task, channels, applied>>

\* The loop runs the callback at the head of its queue:
\* _handle_device_update merges the message into the tree.
RunHandleDeviceUpdate ==
    /\ ready # <<>>
    /\ data' = apply_signalr_updates(data, Head(ready)).tree
    /\ applied' = Append(applied, Head(ready))
    /\ ready' = Tail(ready)
    /\ UNCHANGED <<op, msg, pre, merged, notified, logged, credVars, lifeVars, task,
                   channels, arrived>>

\* Answers of the token chain to the coroutines: each exchange succeeds,
\* fails, or (the login) answers without a token.
TaskB2CAnswers == {ChainOk.b2c, ChainErr.b2c}
TaskLoginAnswers == {ChainOk.login, ChainErr.login, [err |-> FALSE, token |-> FALSE, expires |-> 0]}

NextTasks ==
    \/ CheckFire
    \/ PollFire
    \/ \E t \in {"check", "poll"}, answer \in TaskB2CAnswers : B2CReturn(t, answer)
    \/ \E t \in {"check", "poll"}, answer \in TaskLoginAnswers : LoginReturn(t, answer)
    \/ \E t \in {"check", "poll"}, answer \in LocationResponses : LocationReturn(t, answer)
    \/ \E rsp \in PlainResponses : PollFetchReturn(rsp)
    \/ \E rsp \in PlainResponses : ReconnectStopReturn(rsp)
    \/ SleepReturn
    \/ \E rsp \in PlainResponses : StartFetchReturn(rsp)
    \/ \E rsp \in NegotiateResponses : NegotiateReturn(rsp)
    \/ \E rsp \in PlainResponses : StartReturn(rsp)
    \/ UnloadFire
    \/ \E rsp \in PlainResponses : UnloadStopReturn(rsp)
    \/ \E unload_ok \in BOOLEAN : UnloadPlatformsReturn(unload_ok)

SpecTasks == InitTasks /\ [][NextTasks]_vars

\* The writers of the tree: the refresh of the coordinator, the thread of
\* the channel and the callbacks it queues on the loop.
NextLoop ==
    \/ PollFire
    \/ \E answer \in TaskB2CAnswers : B2CReturn("poll", answer)
    \/ \E answer \in TaskLoginAnswers : LoginReturn("poll", answer)
    \/ \E answer \in LocationResponses : LocationReturn("poll", answer)
    \/ \E rsp \in PlainResponses : PollFetchReturn(rsp)
    \/ \E message \in Messages : DeviceStateNotification(message)
    \/ RunHandleDeviceUpdate

SpecLoop == InitTasks /\ [][NextLoop]_vars

(***************************************************************************)
(* Claims about concurrency, checked under SpecLoop and SpecTasks.         *)
(***************************************************************************)
\* C21: the thread of the channel only queues a callback and leaves the
\* tree alone; the tree changes only in a step of the loop that is one
\* whole merge of the message at the head of the queue, or the replacement
\* by the tree a refresh fetched; the messages handled are, in order, the
\* first of the messages that arrived, and the others are queued.
C21_SingleWriter ==
    /\ [](/\ Len(applied) + Len(ready) = Len(arrived)
          /\ \A i \in 1..Len(applied) : applied[i] = arrived[i])
    /\ [][/\ arrived' # arrived => data' = data
          /\ data' # data =>
                \/ /\ ready # <<>>
                   /\ data' = apply_signalr_updates(data, Head(ready)).tree
                   /\ applied' = Append(applied, Head(ready))
                \/ /\ task["poll"].pc = "fetch"
                   /\ task'["poll"].pc = "idle"
                   /\ data' = SmallTree]_vars

\* Two different messages were handled and a third is queued while a
\* refresh awaits its answer.
C21_Witness ==
    /\ Len(applied) = 2
    /\ applied[1] # applied[2]
    /\ ready # <<>>
    /\ task["poll"].pc = "fetch"

\* C25: every started channel is the one the coordinator references, so
\* at most one is started.
C25_StartedChannelReferenced ==
    \A n \in 1..Len(channels) : channels[n].state = "open" => hub_connection = n

\* C27: no two refresh-token exchanges in flight carry the same refresh
\* token.
C27_RefreshTokenSentOnce ==
    \A t1, t2 \in Tasks :
        (t1 # t2 /\ task[t1].pc = "b2c" /\ task[t2].pc = "b2c")
            => task[t1].sent # task[t2].sent

====
